---- MODULE Spec2Model ----
(***************************************************************************)
(* A model of avocado/core/suite.py: resolutions_to_runnables and the      *)
(* TestSuite aggregate (constructor, from_config factory, variant          *)
(* expansion, dry-run conversion, size/status/stats, run).                 *)
(*                                                                         *)
(* Python objects live in `heap`: a runnable is the index of its record,   *)
(* so that aliasing and deepcopy are distinguishable.  None (and an        *)
(* absent mapping key, for which dict.get returns None) is the empty       *)
(* tuple, a present value x is <<x>>.                                      *)
(***************************************************************************)
EXTENDS Integers, Sequences, FiniteSets, TLC

\* Bounds of the model.
MaxTests == 2
MaxVariants == 2
MaxResolutions == 2

None == <<>>
Some(x) == <<x>>
IsNone(o) == Len(o) = 0
Val(o) == o[1]

SeqsUpTo(S, n) == UNION {[1..k -> S] : k \in 0..n}
Range(s) == {s[i] : i \in DOMAIN s}

(***************************************************************************)
(* Configuration mappings.                                                 *)
(***************************************************************************)
Keys ==
  {"run.dry_run.enabled", "run.suite_runner", "run.execution_order",
   "run.test_parameters", "run.ignore_missing_references",
   "filter.by_tags.tags", "filter.by_tags.include_empty",
   "filter.by_tags.include_empty_key"}

\* A mapping gives every key None (absent) or Some(value).
Config(dry, runner, order, params, ignore, tags, inc, inckey) ==
  ("run.dry_run.enabled" :> dry) @@ ("run.suite_runner" :> runner) @@
  ("run.execution_order" :> order) @@ ("run.test_parameters" :> params) @@
  ("run.ignore_missing_references" :> ignore) @@
  ("filter.by_tags.tags" :> tags) @@
  ("filter.by_tags.include_empty" :> inc) @@
  ("filter.by_tags.include_empty_key" :> inckey)

EmptyConfig == Config(None, None, None, None, None, None, None, None)

\* dict.get(key): None when the key is absent.
get(config, key) == config[key]

\* Python truth value of a configuration entry holding a bool.
truthy_bool(o) == ~IsNone(o) /\ Val(o) = TRUE

\* Python truth value of a configuration entry holding a list.
truthy_list(o) == ~IsNone(o) /\ Len(Val(o)) > 0

\* Python truth value of an optional mapping (`if job_config:`).
truthy_dict(o) == ~IsNone(o) /\ \E k \in Keys : ~IsNone(Val(o)[k])

\* dict.update(other): the keys of other win.
update_swapped(d, other) ==
  [k \in Keys |-> IF IsNone(d[k]) THEN other[k] ELSE d[k]]

update(d, other) ==
  [k \in Keys |-> IF IsNone(other[k]) THEN d[k] ELSE other[k]]

\* settings.as_dict(): the registered defaults, or a registry with none.
RegisteredSettings ==
  Config(Some(FALSE), Some("nrunner"), Some("variants-per-test"),
         Some(<<>>), Some(FALSE), Some(<<>>), Some(FALSE), Some(FALSE))

SettingsRegistries == {EmptyConfig, RegisteredSettings}

ParamList == << <<"p", "1">>, <<"q", "2">>, <<"p", "3">> >>

\* Suite-level mappings handed to the constructor and to the factory.
SuiteConfigs ==
  {Config(dry, runner, order, params, None, None, None, None) :
     dry \in {None, Some(TRUE)},
     runner \in {None, Some("other")},
     order \in {None, Some("tests-per-variant"), Some("bogus")},
     params \in {None, Some(ParamList)}}

\* Job-level mappings.
JobConfigs ==
  {Config(None, Some("nrunner"), None, None, Some(TRUE), None, None, None),
   Config(Some(TRUE), Some("nrunner"), Some("variants-per-test"), None, None,
          Some(<<"fast">>), Some(TRUE), None)}

(***************************************************************************)
(* Runnables, variants, resolutions.                                       *)
(***************************************************************************)
Runnable(kind, tags) ==
  [kind |-> kind, tags |-> tags, default_config |-> None, variant |-> None]

TreeNode(path, value) == [path |-> path, value |-> value]

\* The i-th variant of the engine; the first `e` of them carry no parameter.
EngineVariant(i, e) ==
  [variant |-> IF i <= e THEN <<>> ELSE <<TreeNode("/run", ("x" :> i))>>,
   variant_id |-> Some(i),
   paths |-> <<"/run/*">>]

Engines ==
  {[i \in 1..n |-> EngineVariant(i, e)] : n \in 0..MaxVariants, e \in 0..MaxVariants}

\* is_empty_variant: no leaf of the tree carries a value.
is_empty_variant(var) ==
  \A i \in DOMAIN var : DOMAIN var[i].value = {}

\* dump_variant: the serialised form, paths and leaves turned into tuples.
dump_variant(variant) ==
  [paths |-> variant.paths,
   variant_id |-> variant.variant_id,
   variant |-> [i \in DOMAIN variant.variant |->
                  <<variant.variant[i].path, variant.variant[i].value>>]]

\* Varianter.itertests(): the generated variants, re-walked on every call.
\* The engine is taken as parsed: the OptionValidationError of a malformed
\* variant source (lines 268-273) is not part of the model.
itertests(varianter) == varianter

\* Truth value of the Varianter (`elif self.variants`): it has variants.
truthy_varianter(varianter) == Len(varianter) > 0

(***************************************************************************)
(* Exceptions: the class raised and the source line that raises it.        *)
(***************************************************************************)
NoError == [type |-> "none", line |-> 0]
Raised(type, line) == [type |-> type, line |-> line]

(***************************************************************************)
(* resolutions_to_runnables and its collaborators.                         *)
(***************************************************************************)
\* Runnable.filter_runnable_config: the entries of config the kind uses.
ConfigUsed(kind) ==
  IF kind = "exec-test" THEN {"run.dry_run.enabled"}
  ELSE IF kind = "python" THEN {"run.test_parameters", "run.execution_order"}
  ELSE {}

filter_runnable_config(kind, config) ==
  [k \in ConfigUsed(kind) |-> config[k]]

\* A resolution: its result and the runnables (heap indices) it holds.
Resolution(result, ids) == [result |-> result, resolutions |-> ids]

\* filter_tags_on_runnables: the runnables of the successful resolutions that
\* carry a requested tag, and the untagged ones when include_empty is set.
RECURSIVE filter_tags_on_runnables(_, _, _, _, _)
filter_tags_on_runnables(h, resolutions, filter_by_tags, include_empty, include_empty_key) ==
  IF resolutions = <<>> THEN <<>>
  ELSE LET resolution == Head(resolutions)
           keep(id) == \/ h[id].tags \cap Range(Val(filter_by_tags)) # {}
                       \/ h[id].tags = {} /\ truthy_bool(include_empty)
           kept == IF resolution.result # "SUCCESS" THEN <<>>
                   ELSE SelectSeq(resolution.resolutions, keep)
       IN kept \o filter_tags_on_runnables(h, Tail(resolutions), filter_by_tags,
                                           include_empty, include_empty_key)

\* Lines 78-82: the inner loop over one resolution's runnables.
RECURSIVE runnables_loop(_, _, _)
runnables_loop(acc, ids, config) ==
  IF ids = <<>> THEN acc
  ELSE LET runnable == Head(ids)
           h1 == [acc.heap EXCEPT ![runnable].default_config =
                    Some(filter_runnable_config(acc.heap[runnable].kind, config))]
       IN runnables_loop([heap |-> h1, result |-> Append(acc.result, runnable)],
                         Tail(ids), config)

\* Lines 75-82 with the SUCCESS test of line 76 left out.
RECURSIVE resolutions_loop_all(_, _, _)
resolutions_loop_all(acc, resolutions, config) ==
  IF resolutions = <<>> THEN acc
  ELSE resolutions_loop_all(
         runnables_loop(acc, Head(resolutions).resolutions, config),
         Tail(resolutions), config)

\* Lines 75-82: the loop over the resolutions.
RECURSIVE resolutions_loop(_, _, _)
resolutions_loop(acc, resolutions, config) ==
  IF resolutions = <<>> THEN acc
  ELSE LET resolution == Head(resolutions)
       IN IF resolution.result # "SUCCESS"
          THEN resolutions_loop(acc, Tail(resolutions), config)
          ELSE resolutions_loop(
                 runnables_loop(acc, resolution.resolutions, config),
                 Tail(resolutions), config)

\* resolutions_to_runnables: the heap afterwards and the list returned.
resolutions_to_runnables(h, resolutions, config) ==
  LET filter_by_tags == get(config, "filter.by_tags.tags")
      include_empty == get(config, "filter.by_tags.include_empty")
      include_empty_key == get(config, "filter.by_tags.include_empty_key")
  IN IF truthy_list(filter_by_tags)
     THEN [heap |-> h,
           result |-> filter_tags_on_runnables(h, resolutions, filter_by_tags,
                                               include_empty, include_empty_key)]
     ELSE resolutions_loop([heap |-> h, result |-> <<>>], resolutions, config)

(***************************************************************************)
(* TestSuite: properties.                                                  *)
(***************************************************************************)
\* TestSuite.size
size(tests) == IF IsNone(tests) THEN 0 ELSE Len(Val(tests))

\* TestSuite.status with the first two tests exchanged.
status_size_first(tests) ==
  IF size(tests) = 0 THEN "TESTS_NOT_FOUND"
  ELSE IF IsNone(tests) THEN "RESOLUTION_NOT_STARTED"
  ELSE IF size(tests) > 0 THEN "TESTS_FOUND"
  ELSE "UNKNOWN"

\* TestSuite.status
status(tests) ==
  IF IsNone(tests) THEN "RESOLUTION_NOT_STARTED"
  ELSE IF size(tests) = 0 THEN "TESTS_NOT_FOUND"
  ELSE IF size(tests) > 0 THEN "TESTS_FOUND"
  ELSE "UNKNOWN"

\* TestSuite.test_parameters: the dict built from the list of pairs (a later
\* pair of the same name wins); config.get's default [] when the key is absent.
test_parameters(config) ==
  LET o == get(config, "run.test_parameters")
      pairs == IF IsNone(o) THEN <<>> ELSE Val(o)
      names == {pairs[i][1] : i \in DOMAIN pairs}
      last(n) == CHOOSE i \in DOMAIN pairs :
                   /\ pairs[i][1] = n
                   /\ \A j \in DOMAIN pairs : pairs[j][1] = n => j <= i
  IN [n \in names |-> pairs[last(n)][2]]

\* Python truth value of a dict.
truthy_params(d) == DOMAIN d # {}

\* Lines 125-129: the loop over the variants.
RECURSIVE has_non_empty_variant(_, _)
has_non_empty_variant(variants, i) ==
  IF i > Len(variants) THEN FALSE
  ELSE LET var == variants[i].variant
       IN IF ~is_empty_variant(var) THEN TRUE
          ELSE has_non_empty_variant(variants, i + 1)

\* TestSuite._has_both_parameters_and_variants
_has_both_parameters_and_variants(params, varianter) ==
  IF ~truthy_params(params) THEN FALSE
  ELSE has_non_empty_variant(itertests(varianter), 1)

\* TestSuite._convert_to_dry_run without the test of the runner's name.
_convert_to_dry_run_any_runner(h, tests, config) ==
  IF IsNone(tests) THEN [heap |-> h, err |-> Raised("TypeError", 151)]
  ELSE [heap |-> [id \in DOMAIN h |->
                    IF id \in Range(Val(tests))
                    THEN [h[id] EXCEPT !.kind = "dry-run"] ELSE h[id]],
        err |-> NoError]

\* TestSuite._convert_to_dry_run: iterating None raises TypeError.
_convert_to_dry_run(h, tests, config) ==
  IF get(config, "run.suite_runner") = Some("nrunner")
  THEN IF IsNone(tests) THEN [heap |-> h, err |-> Raised("TypeError", 151)]
       ELSE [heap |-> [id \in DOMAIN h |->
                         IF id \in Range(Val(tests))
                         THEN [h[id] EXCEPT !.kind = "dry-run"] ELSE h[id]],
             err |-> NoError]
  ELSE [heap |-> h, err |-> NoError]

(***************************************************************************)
(* Variant expansion.  An accumulator holds the heap and the list          *)
(* runnable_with_variant built so far.                                     *)
(***************************************************************************)
\* add_variant without the deepcopy of line 279: the runnable itself is bound.
add_variant_no_copy(acc, runnable, variant) ==
  [heap |-> [acc.heap EXCEPT ![runnable].variant = Some(dump_variant(variant))],
   result |-> Append(acc.result, runnable)]

\* add_variant: a deep copy is a new object with equal fields.
add_variant(acc, runnable, variant) ==
  LET copy == Len(acc.heap) + 1
      h1 == Append(acc.heap, acc.heap[runnable])
      h2 == [h1 EXCEPT ![copy].variant = Some(dump_variant(variant))]
  IN [heap |-> h2, result |-> Append(acc.result, copy)]

\* `for runnable in self.tests: add_variant(runnable, variant)`
RECURSIVE for_runnable_in_tests(_, _, _)
for_runnable_in_tests(acc, tests, variant) ==
  IF tests = <<>> THEN acc
  ELSE for_runnable_in_tests(add_variant(acc, Head(tests), variant),
                             Tail(tests), variant)

\* `for variant in self.variants.itertests(): add_variant(runnable, variant)`
RECURSIVE for_variant_in_itertests(_, _, _)
for_variant_in_itertests(acc, runnable, variants) ==
  IF variants = <<>> THEN acc
  ELSE for_variant_in_itertests(add_variant(acc, runnable, Head(variants)),
                                runnable, Tail(variants))

\* Lines 296-298 with the two loops nested the other way round.
RECURSIVE variants_per_test_variant_major(_, _, _)
variants_per_test_variant_major(acc, tests, variants) ==
  IF variants = <<>> THEN acc
  ELSE variants_per_test_variant_major(
         for_runnable_in_tests(acc, tests, Head(variants)), tests, Tail(variants))

\* Lines 296-298.
RECURSIVE variants_per_test(_, _, _)
variants_per_test(acc, tests, variants) ==
  IF tests = <<>> THEN acc
  ELSE variants_per_test(for_variant_in_itertests(acc, Head(tests), variants),
                         Tail(tests), variants)

\* Lines 300-302.
RECURSIVE tests_per_variant(_, _, _)
tests_per_variant(acc, tests, variants) ==
  IF variants = <<>> THEN acc
  ELSE tests_per_variant(for_runnable_in_tests(acc, tests, Head(variants)),
                         tests, Tail(variants))

\* The variant built from the test parameters (lines 285-288).
parameters_variant(params) ==
  [variant |-> <<TreeNode("/", params)>>, variant_id |-> None, paths |-> <<"/">>]

\* _get_test_variants with the tests of lines 284 and 291 exchanged: the
\* engine's variants are used whenever there are any.
_get_test_variants_variants_first(h, tests, params, varianter, config) ==
  LET acc0 == [heap |-> h, result |-> <<>>]
      ok(acc) == [heap |-> acc.heap, result |-> acc.result, err |-> NoError]
      fail(line) == [heap |-> h, result |-> <<>>, err |-> Raised("TypeError", line)]
      execution_order == get(config, "run.execution_order")
  IN IF truthy_varianter(varianter)
     THEN IF execution_order = Some("variants-per-test")
          THEN IF IsNone(tests) THEN fail(296)
               ELSE ok(variants_per_test(acc0, Val(tests), itertests(varianter)))
          ELSE IF execution_order = Some("tests-per-variant")
          THEN IF IsNone(tests) THEN fail(301)
               ELSE ok(tests_per_variant(acc0, Val(tests), itertests(varianter)))
          ELSE ok(acc0)
     ELSE IF truthy_params(params)
     THEN IF IsNone(tests) THEN fail(289)
          ELSE ok(for_runnable_in_tests(acc0, Val(tests), parameters_variant(params)))
     ELSE ok(acc0)

\* TestSuite._get_test_variants: the heap afterwards, the list returned, and
\* the TypeError of iterating self.tests when it is None.
_get_test_variants(h, tests, params, varianter, config) ==
  LET acc0 == [heap |-> h, result |-> <<>>]
      ok(acc) == [heap |-> acc.heap, result |-> acc.result, err |-> NoError]
      fail(line) == [heap |-> h, result |-> <<>>, err |-> Raised("TypeError", line)]
      execution_order == get(config, "run.execution_order")
  IN IF truthy_params(params)
     THEN IF IsNone(tests) THEN fail(289)
          ELSE ok(for_runnable_in_tests(acc0, Val(tests), parameters_variant(params)))
     ELSE IF truthy_varianter(varianter)
     THEN IF execution_order = Some("variants-per-test")
          THEN IF IsNone(tests) THEN fail(296)
               ELSE ok(variants_per_test(acc0, Val(tests), itertests(varianter)))
          ELSE IF execution_order = Some("tests-per-variant")
          THEN IF IsNone(tests) THEN fail(301)
               ELSE ok(tests_per_variant(acc0, Val(tests), itertests(varianter)))
          ELSE ok(acc0)
     ELSE ok(acc0)

(***************************************************************************)
(* TestSuite.__init__: the object's fields when the constructor returns or *)
(* raises, and the heap.                                                   *)
(***************************************************************************)
\* Lines 103-107: self.config is the fresh dict of settings.as_dict(),
\* updated in place; the two arguments are only read.  The three mappings
\* afterwards.
merged_config(defaults, job_config, config) ==
  LET c1 == IF truthy_dict(job_config) THEN update(defaults, Val(job_config))
            ELSE defaults
      c2 == IF truthy_dict(config) THEN update(c1, Val(config)) ELSE c1
  IN [self_config |-> c2, job_config |-> job_config, config |-> config]

\* The object when __init__ ends (returning or raising `err`).
init_object(h, tests, m, params, err) ==
  [heap |-> h, tests |-> tests, config |-> m.self_config,
   test_parameters |-> params, caller_config |-> m.config,
   caller_job_config |-> m.job_config, err |-> err]

\* Line 117, `r` being what _convert_to_dry_run did.
init_converted(tests, m, params, r) ==
  init_object(r.heap, tests, m, params, r.err)

\* Lines 114-120: the parameters/variants check, then the dry-run conversion.
init_checks(h, varianter, tests, m, params) ==
  IF _has_both_parameters_and_variants(params, varianter)
  THEN init_object(h, tests, m, params, Raised("TestSuiteError", 139))
  ELSE IF truthy_bool(get(m.self_config, "run.dry_run.enabled"))
  THEN init_converted(tests, m, params,
                      _convert_to_dry_run(h, tests, m.self_config))
  ELSE init_object(h, tests, m, params, NoError)

\* Lines 109-120, `m` being the mappings after lines 103-107.
init_merged(h, varianter, tests, m) ==
  init_checks(h, varianter, tests, m, test_parameters(m.self_config))

__init__(h, defaults, varianter, config, tests, job_config) ==
  init_merged(h, varianter, tests, merged_config(defaults, job_config, config))

(***************************************************************************)
(* TestSuite.from_config (with _from_config_with_resolver).                *)
(***************************************************************************)
\* What the resolver answers for one reference: a result and the runnables
\* it created (given by their prototypes).
ResolutionShapes ==
  {[result |-> "SUCCESS", protos |-> <<Runnable("exec-test", {"fast"}), Runnable("python", {})>>],
   [result |-> "SUCCESS", protos |-> <<Runnable("python", {})>>],
   [result |-> "NOTFOUND", protos |-> <<Runnable("exec-test", {"fast"})>>]}

\* resolve(): either raises JobTestSuiteReferenceResolutionError or returns
\* one resolution per reference.
ResolveOutcomes ==
  {[raises |-> TRUE, shapes |-> <<>>]} \cup
  {[raises |-> FALSE, shapes |-> ss] : ss \in SeqsUpTo(ResolutionShapes, MaxResolutions)}

\* The runnables of the resolutions are new objects of the heap.
RECURSIVE allocate(_, _, _)
allocate(h, done, shapes) ==
  IF shapes = <<>> THEN [heap |-> h, resolutions |-> done]
  ELSE LET shape == Head(shapes)
           n == Len(shape.protos)
           ids == [i \in 1..n |-> Len(h) + i]
       IN allocate(h \o shape.protos,
                   Append(done, Resolution(shape.result, ids)),
                   Tail(shapes))

\* Line 346 as if expansion were always asked for.
expansion_triggered_always(params, varianter) == TRUE

\* Line 346: `if suite.test_parameters or suite.variants`.
expansion_triggered(params, varianter) ==
  truthy_params(params) \/ truthy_varianter(varianter)

\* Lines 349-355 without the test of run.ignore_missing_references.
no_tests_error_never(config, tests) == NoError

\* Lines 349-355: the error for an empty suite.
no_tests_error(config, tests) ==
  IF ~truthy_bool(get(config, "run.ignore_missing_references"))
  THEN IF Len(tests) = 0 THEN Raised("TestSuiteError", 355) ELSE NoError
  ELSE NoError

\* Lines 340-344: the factory's own merge into a fresh dict.
factory_config(defaults, job_config, suite_config) ==
  LET c0 == IF truthy_dict(job_config) THEN update(defaults, Val(job_config))
            ELSE defaults
  IN update(c0, suite_config)

\* What from_config leaves: `a` is the resolver's answer, `rr` what
\* resolutions_to_runnables returned, `suite` the constructed object.
factory_result(args, a, rr, suite, h, tests, err) ==
  [heap |-> h, given |-> a.heap, object |-> TRUE, tests |-> tests,
   config |-> Some(suite.config),
   test_parameters |-> Some(suite.test_parameters),
   resolutions |-> Some(a.resolutions),
   runnables |-> Some(rr.result),
   caller_config |-> Some(args.suite_config),
   caller_job_config |-> args.job_config, err |-> err]

\* Lines 347-357, `e` being what _get_test_variants returned.
factory_expanded(args, config, a, rr, suite, e) ==
  IF e.err # NoError
  THEN factory_result(args, a, rr, suite, e.heap, suite.tests, e.err)
  ELSE factory_result(args, a, rr, suite, e.heap, Some(e.result),
                      no_tests_error(config, e.result))

\* Lines 346-357, `suite` being what line 345 returned (or the constructor's
\* exception).
factory_constructed(args, config, a, rr, suite) ==
  IF suite.err # NoError
  THEN factory_result(args, a, rr, suite, suite.heap, suite.tests, suite.err)
  ELSE IF expansion_triggered(suite.test_parameters, args.varianter)
  THEN factory_expanded(args, config, a, rr, suite,
                        _get_test_variants(suite.heap, suite.tests,
                                           suite.test_parameters,
                                           args.varianter, suite.config))
  ELSE factory_result(args, a, rr, suite, suite.heap, suite.tests,
                      no_tests_error(config, Val(suite.tests)))

\* Line 173: cls(name=name, config=config, tests=runnables, ...).
factory_runnables(args, config, a, rr) ==
  factory_constructed(args, config, a, rr,
                      __init__(rr.heap, args.defaults, args.varianter,
                               Some(config), Some(rr.result), None))

\* Line 169: runnables = resolutions_to_runnables(resolutions, config).
factory_resolved(args, config, a) ==
  factory_runnables(args, config, a,
                    resolutions_to_runnables(a.heap, a.resolutions, config))

from_config(h, defaults, varianter, suite_config, job_config, outcome) ==
  IF outcome.raises
  THEN [heap |-> h, given |-> h, object |-> FALSE, tests |-> None,
        config |-> None, test_parameters |-> None, resolutions |-> None,
        runnables |-> None, caller_config |-> Some(suite_config),
        caller_job_config |-> job_config,
        err |-> Raised("TestSuiteError", 167)]
  ELSE factory_resolved(
         [defaults |-> defaults, varianter |-> varianter,
          suite_config |-> suite_config, job_config |-> job_config],
         factory_config(defaults, job_config, suite_config),
         allocate(h, <<>>, outcome.shapes))

(***************************************************************************)
(* stats and run.                                                          *)
(***************************************************************************)
\* str.lower() on the kinds that occur.
lower(key) == IF key = "EXEC-TEST" THEN "exec-test" ELSE key

\* _get_stats_from_nrunner: how many tests of each kind.
_get_stats_from_nrunner(h, tests) ==
  LET kinds == {lower(h[id].kind) : id \in Range(tests)}
  IN [k \in kinds |-> Cardinality({i \in DOMAIN tests : lower(h[tests[i]].kind) = k})]

\* The names the SuiteRunnerDispatcher knows.
RegisteredRunners == {"nrunner"}

(***************************************************************************)
(* State.                                                                  *)
(***************************************************************************)
VARIABLES
  settings,          \* what settings.as_dict() returns
  varianter,         \* the variants the Varianter generates
  heap,              \* the runnable objects
  given,             \* the runnables as they were handed to the last constructor
  pc,                \* "start", "built" (a suite was returned), "failed", "ran"
  last,              \* the operation that ran last
  err,               \* the exception the last operation raised, or NoError
  object,            \* whether a TestSuite object was created
  tests,             \* TestSuite.tests
  config,            \* TestSuite.config
  resolutions,       \* TestSuite.resolutions
  _test_parameters,  \* TestSuite._test_parameters
  _runner,           \* TestSuite._runner
  in_config,         \* the config argument of the constructing call
  in_job_config,     \* the job_config argument of the constructing call
  caller_config,     \* the caller's config mapping after the call
  caller_job_config, \* the caller's job_config mapping after the call
  runnables,         \* what resolutions_to_runnables returned (line 169)
  expanded,          \* what the last get_test_variants returned
  stats              \* what the last read of stats returned

vars == <<settings, varianter, heap, given, pc, last, err, object, tests, config,
          resolutions, _test_parameters, _runner, in_config, in_job_config,
          caller_config, caller_job_config, runnables, expanded, stats>>

\* The runnables the caller of the constructor holds.
CallerRunnables == <<Runnable("exec-test", {"fast"}), Runnable("python", {})>>

Init ==
  /\ settings \in SettingsRegistries
  /\ varianter \in Engines
  /\ heap = CallerRunnables
  /\ given = CallerRunnables
  /\ pc = "start"
  /\ last = "none"
  /\ err = NoError
  /\ object = FALSE
  /\ tests = None
  /\ config = None
  /\ resolutions = None
  /\ _test_parameters = None
  /\ _runner = None
  /\ in_config = None
  /\ in_job_config = None
  /\ caller_config = None
  /\ caller_job_config = None
  /\ runnables = None
  /\ expanded = None
  /\ stats = None

Optional(S) == {None} \cup {Some(x) : x \in S}

\* The state when the constructor call ended as `r`.
Constructed(c, j, r) ==
  /\ heap' = r.heap
  /\ given' = heap
  /\ tests' = r.tests
  /\ config' = Some(r.config)
  /\ _test_parameters' = Some(r.test_parameters)
  /\ err' = r.err
  /\ pc' = IF r.err = NoError THEN "built" ELSE "failed"
  /\ in_config' = c
  /\ in_job_config' = j
  /\ caller_config' = r.caller_config
  /\ caller_job_config' = r.caller_job_config

\* TestSuite(name, config, tests, job_config)
Construct ==
  /\ pc = "start"
  /\ \E c \in Optional(SuiteConfigs), j \in Optional(JobConfigs),
        t \in Optional(SeqsUpTo(DOMAIN CallerRunnables, MaxTests)) :
       Constructed(c, j, __init__(heap, settings, varianter, c, t, j))
  /\ object' = TRUE
  /\ last' = "construct"
  /\ UNCHANGED <<settings, varianter, resolutions, _runner, runnables, expanded, stats>>

\* The state when the factory call ended as `r`.
Produced(c, j, r) ==
  /\ heap' = r.heap
  /\ given' = r.given
  /\ object' = r.object
  /\ tests' = r.tests
  /\ config' = r.config
  /\ _test_parameters' = r.test_parameters
  /\ resolutions' = r.resolutions
  /\ runnables' = r.runnables
  /\ err' = r.err
  /\ pc' = IF r.err = NoError THEN "built" ELSE "failed"
  /\ in_config' = Some(c)
  /\ in_job_config' = j
  /\ caller_config' = r.caller_config
  /\ caller_job_config' = r.caller_job_config

\* TestSuite.from_config(config, name, job_config)
FromConfig ==
  /\ pc = "start"
  /\ \E c \in SuiteConfigs, j \in Optional(JobConfigs), outcome \in ResolveOutcomes :
       Produced(c, j, from_config(heap, settings, varianter, c, j, outcome))
  /\ last' = "from_config"
  /\ UNCHANGED <<settings, varianter, _runner, expanded, stats>>

\* The scenarios explored: a suite that was just returned (or converted
\* again) is expanded once; then one bound runnable is changed.
JustBuilt == pc = "built" /\ last \in {"construct", "from_config"}
Unexpanded ==
  /\ pc = "built"
  /\ last \in {"construct", "from_config", "convert_to_dry_run"}
  /\ IsNone(expanded)

\* The state when _get_test_variants ended as `e`.
Expanded(e) ==
  /\ heap' = e.heap
  /\ err' = e.err
  /\ expanded' = IF e.err = NoError THEN Some(e.result) ELSE None

\* suite.get_test_variants()
GetTestVariants ==
  /\ Unexpanded
  /\ Expanded(_get_test_variants(heap, tests, Val(_test_parameters), varianter,
                                 Val(config)))
  /\ last' = "get_test_variants"
  /\ UNCHANGED <<settings, varianter, given, pc, object, tests, config, resolutions,
                 _test_parameters, _runner, in_config, in_job_config, caller_config,
                 caller_job_config, runnables, stats>>

\* The state when _convert_to_dry_run ended as `r`.
Converted(r) ==
  /\ heap' = r.heap
  /\ err' = r.err

\* suite._convert_to_dry_run() applied to a suite that exists
ConvertToDryRun ==
  /\ Unexpanded
  /\ Converted(_convert_to_dry_run(heap, tests, Val(config)))
  /\ last' = "convert_to_dry_run"
  /\ UNCHANGED <<settings, varianter, given, pc, object, tests, config, resolutions,
                 _test_parameters, _runner, in_config, in_job_config, caller_config,
                 caller_job_config, runnables, expanded, stats>>

\* A caller assigns the variant field of one variant-bound runnable.
Changed == Some([paths |-> <<"/changed">>, variant_id |-> None, variant |-> <<>>])

SetVariant ==
  /\ pc = "built"
  /\ \/ last = "get_test_variants" /\ ~IsNone(expanded)
     \/ last = "from_config"
  /\ LET bound == IF last = "get_test_variants" THEN Val(expanded) ELSE Val(tests)
     IN \E i \in {1, Len(bound)} :
          /\ i \in DOMAIN bound
          /\ ~IsNone(heap[bound[i]].variant)
          /\ heap' = [heap EXCEPT ![bound[i]].variant = Changed]
  /\ last' = "set_variant"
  /\ err' = NoError
  /\ UNCHANGED <<settings, varianter, given, pc, object, tests, config, resolutions,
                 _test_parameters, _runner, in_config, in_job_config, caller_config,
                 caller_job_config, runnables,
                 expanded, stats>>

\* suite.stats
Stats ==
  /\ JustBuilt
  /\ LET runner_name == get(Val(config), "run.suite_runner")
     IN IF runner_name = Some("nrunner")
        THEN IF IsNone(tests)
             THEN /\ err' = Raised("TypeError", 177)
                  /\ stats' = None
             ELSE /\ err' = NoError
                  /\ stats' = Some(_get_stats_from_nrunner(heap, Val(tests)))
        ELSE /\ err' = NoError
             /\ stats' = Some(<<>>)
  /\ last' = "stats"
  /\ UNCHANGED <<settings, varianter, heap, given, pc, object, tests, config,
                 resolutions, _test_parameters, _runner, in_config, in_job_config,
                 caller_config, caller_job_config, runnables, expanded>>

\* suite.run(job): the runner is looked up and the suite handed to it.
Run ==
  /\ JustBuilt
  /\ LET runner_name == get(Val(config), "run.suite_runner")
     IN IF ~IsNone(runner_name) /\ Val(runner_name) \in RegisteredRunners
        THEN /\ _runner' = runner_name
             /\ err' = NoError
             /\ pc' = "ran"
        ELSE /\ _runner' = None
             /\ err' = Raised("TestSuiteError", 212)
             /\ pc' = "built"
  /\ last' = "run"
  /\ UNCHANGED <<settings, varianter, heap, given, object, tests, config, resolutions,
                 _test_parameters, in_config, in_job_config, caller_config,
                 caller_job_config, runnables, expanded, stats>>

Next ==
  \/ Construct
  \/ FromConfig
  \/ GetTestVariants
  \/ ConvertToDryRun
  \/ SetVariant
  \/ Stats
  \/ Run

Spec == Init /\ [][Next]_vars

(***************************************************************************)
(* Properties.                                                             *)
(***************************************************************************)
ExecutionOrder == get(Val(config), "run.execution_order")
HasParameters == truthy_params(Val(_test_parameters))
HasNonEmptyVariant ==
  \E i \in DOMAIN varianter : ~is_empty_variant(varianter[i].variant)
DryRunEnabled == truthy_bool(get(Val(config), "run.dry_run.enabled"))
RunnerIsNrunner == get(Val(config), "run.suite_runner") = Some("nrunner")
IgnoreMissing == truthy_bool(get(Val(config), "run.ignore_missing_references"))
TagFilter == truthy_list(get(Val(config), "filter.by_tags.tags"))
\* from_config got as far as line 346: the resolver answered and the
\* constructor returned.
FactoryPastConstructor ==
  last = "from_config" /\ object /\ err.line # 139

\* The object `copy` is the runnable `original` bound to the serialised `v`.
BoundTo(copy, original, v) ==
  heap[copy] = [heap[original] EXCEPT !.variant = Some(v)]

\* C1: a constructor call with both test parameters and a non-empty variant
\* raises TestSuiteError, and every other constructor call returns a suite.
C1_ConstructorOutcome ==
  last = "construct" =>
    IF HasParameters /\ HasNonEmptyVariant
    THEN err.type = "TestSuiteError" /\ pc = "failed"
    ELSE err = NoError /\ pc = "built"

\* `out` is the expansion of the tests `T` over the engine's variants in the
\* configured execution order.
ExpansionInOrder(out, T) ==
  LET V == varianter
      nT == Len(Val(T))
      nV == Len(V)
  IN IF ExecutionOrder = Some("variants-per-test")
     THEN /\ Len(out) = nT * nV
          /\ \A t \in 1..nT, v \in 1..nV :
               BoundTo(out[(t - 1) * nV + v], Val(T)[t], dump_variant(V[v]))
     ELSE IF ExecutionOrder = Some("tests-per-variant")
     THEN /\ Len(out) = nT * nV
          /\ \A t \in 1..nT, v \in 1..nV :
               BoundTo(out[(v - 1) * nT + t], Val(T)[t], dump_variant(V[v]))
     ELSE out = <<>>

\* C2: with no test parameters and at least one variant, the expansion is
\* the T*V bindings in the configured order (test-major for
\* "variants-per-test", variant-major for "tests-per-variant") and empty for
\* any other execution order.
C2_ExpansionOrder ==
  /\ (last = "get_test_variants" /\ err = NoError /\ ~HasParameters
        /\ Len(varianter) >= 1)
       => ExpansionInOrder(Val(expanded), tests)
  /\ (FactoryPastConstructor /\ ~HasParameters /\ Len(varianter) >= 1)
       => ExpansionInOrder(Val(tests), runnables)

C2_Witness ==
  /\ last = "get_test_variants" /\ err = NoError /\ ~HasParameters
  /\ Len(varianter) = 2
  /\ ExecutionOrder = Some("tests-per-variant")
  /\ Len(Val(tests)) = 2
  /\ heap[Val(tests)[1]].kind # heap[Val(tests)[2]].kind
  /\ Len(Val(expanded)) = 4

\* `out` binds each of the tests `T`, in order, to the one variant made of
\* the test parameters.
OnePerTest(out, T) ==
  LET synthetic == [paths |-> <<"/">>, variant_id |-> None,
                    variant |-> << <<"/", Val(_test_parameters)>> >>]
  IN /\ Len(out) = Len(T)
     /\ \A t \in DOMAIN T : BoundTo(out[t], T[t], synthetic)

\* C3: with test parameters the expansion has one binding per test, in the
\* order of the tests, each to the same synthetic variant, whatever the
\* execution order and the engine's variants.
C3_ParametersExpansion ==
  /\ (last = "get_test_variants" /\ err = NoError /\ HasParameters)
       => OnePerTest(Val(expanded), Val(tests))
  /\ (FactoryPastConstructor /\ HasParameters)
       => OnePerTest(Val(tests), Val(runnables))

C3_Witness ==
  /\ last = "get_test_variants" /\ err = NoError /\ HasParameters
  /\ Len(varianter) = 2
  /\ ExecutionOrder = Some("variants-per-test")
  /\ Len(Val(tests)) = 2
  /\ heap[Val(tests)[1]].kind # heap[Val(tests)[2]].kind

\* C4: from_config with an empty final test list raises TestSuiteError when
\* run.ignore_missing_references is not set and returns a suite of size 0
\* when it is set; a suite returned with the option off is not empty.
C4_MissingReferences ==
  FactoryPastConstructor =>
    /\ (Len(Val(tests)) = 0 /\ ~IgnoreMissing)
         => (err.type = "TestSuiteError" /\ pc = "failed")
    /\ (Len(Val(tests)) = 0 /\ IgnoreMissing)
         => (err = NoError /\ pc = "built" /\ size(tests) = 0)
    /\ (pc = "built" /\ ~IgnoreMissing) => size(tests) > 0

C4_Witness ==
  /\ FactoryPastConstructor
  /\ ~IgnoreMissing
  /\ Len(Val(runnables)) > 0
  /\ Len(Val(tests)) = 0
  /\ err = Raised("TestSuiteError", 355)

\* The positions of `bound` other than i keep their variant over the step.
OthersKeepVariant(bound, i) ==
  \A j \in DOMAIN bound : j # i => heap'[bound[j]].variant = heap[bound[j]].variant

\* C5: expansion leaves every runnable that existed as it was and returns
\* new, pairwise distinct objects; assigning the variant of one expanded
\* runnable changes no other expanded runnable and no original.
C5_DeepCopyIsolation ==
  [][ /\ (last' = "get_test_variants" /\ err' = NoError) =>
           /\ \A id \in DOMAIN heap : heap'[id] = heap[id]
           /\ \A i \in DOMAIN Val(expanded') :
                /\ Val(expanded')[i] \notin DOMAIN heap
                /\ \A j \in DOMAIN Val(expanded') :
                     i # j => Val(expanded')[i] # Val(expanded')[j]
      /\ (last' = "from_config" /\ object' /\ err'.line # 139) =>
           /\ \A id \in Range(Val(runnables')) :
                /\ heap'[id].variant = None
                /\ heap'[id].tags = given'[id].tags
           /\ tests' # runnables' =>
                /\ Range(Val(tests')) \cap Range(Val(runnables')) = {}
                /\ \A i, j \in DOMAIN Val(tests') :
                     i # j => Val(tests')[i] # Val(tests')[j]
      /\ (last' = "set_variant" /\ last = "get_test_variants") =>
           /\ \E i \in DOMAIN Val(expanded) :
                /\ heap'[Val(expanded)[i]].variant = Changed
                /\ OthersKeepVariant(Val(expanded), i)
           /\ \A id \in Range(Val(tests)) : heap'[id] = heap[id]
      /\ (last' = "set_variant" /\ last = "from_config") =>
           /\ \E i \in DOMAIN Val(tests) :
                /\ heap'[Val(tests)[i]].variant = Changed
                /\ OthersKeepVariant(Val(tests), i)
           /\ \A id \in Range(Val(runnables)) : heap'[id] = heap[id]
    ]_vars

C5_Witness ==
  /\ last = "set_variant"
  /\ ~IsNone(expanded)
  /\ Len(Val(tests)) = 1
  /\ Len(Val(expanded)) = 2
  /\ heap[Val(expanded)[1]].variant = Changed
  /\ heap[Val(expanded)[2]].variant # Changed
  /\ heap[Val(tests)[1]].variant = None

\* The state right after construction agrees with the dry-run setting.
DryRunAtConstruction ==
  /\ (last = "construct" /\ pc = "built") =>
       IF DryRunEnabled /\ RunnerIsNrunner
       THEN \A id \in DOMAIN heap :
              heap[id] = IF id \in Range(Val(tests))
                         THEN [given[id] EXCEPT !.kind = "dry-run"]
                         ELSE given[id]
       ELSE heap = given
  /\ (last = "from_config" /\ pc = "built") =>
       IF DryRunEnabled /\ RunnerIsNrunner
       THEN /\ \A id \in Range(Val(tests)) \cup Range(Val(runnables)) :
                 heap[id].kind = "dry-run"
            /\ \A id \in Range(Val(runnables)) :
                 /\ heap[id].tags = given[id].tags
                 /\ heap[id].variant = given[id].variant
       ELSE /\ \A id \in DOMAIN given : heap[id].kind = given[id].kind
            /\ \A id \in Range(Val(tests)) : heap[id].kind # "dry-run"

\* C6: a suite built with dry-run enabled on the nrunner has every runnable,
\* and every variant-bound copy, of kind "dry-run" and nothing else changed;
\* converting again changes nothing; with another runner or without dry-run
\* no kind changes.
C6_DryRunConversion ==
  [][ /\ DryRunAtConstruction'
      /\ (last' = "get_test_variants" /\ err' = NoError
            /\ DryRunEnabled /\ RunnerIsNrunner) =>
           \A id \in Range(Val(expanded')) : heap'[id].kind = "dry-run"
      /\ (last' = "convert_to_dry_run" /\ (DryRunEnabled \/ ~RunnerIsNrunner)) =>
           heap' = heap
    ]_vars

C6_Witness ==
  /\ last = "from_config" /\ pc = "built"
  /\ DryRunEnabled /\ RunnerIsNrunner
  /\ Len(Val(runnables)) = 2
  /\ Len(Val(tests)) = 4
  /\ \A id \in Range(Val(runnables)) : given[id].kind # "dry-run"

\* The status reported is the one the tests determine.
StatusProjection ==
  /\ status(tests) = "RESOLUTION_NOT_STARTED" <=> IsNone(tests)
  /\ status(tests) = "TESTS_NOT_FOUND" <=> tests = Some(<<>>)
  /\ status(tests) = "TESTS_FOUND" <=> (~IsNone(tests) /\ Len(Val(tests)) >= 1)
  /\ status(tests) # "UNKNOWN"

\* C7: status is a function of tests alone (not started iff None, not found
\* iff empty, found iff non-empty, never unknown); no operation sets tests
\* back to None, and a suite returned by from_config has started.
C7_StatusLifecycle ==
  [][ /\ StatusProjection /\ StatusProjection'
      /\ ~IsNone(tests) => ~IsNone(tests')
      /\ (last' = "from_config" /\ pc' = "built")
           => status(tests') # "RESOLUTION_NOT_STARTED"
    ]_vars

C7_Witness ==
  /\ last = "from_config" /\ pc = "built"
  /\ status(tests) = "TESTS_NOT_FOUND"

\* How many runnables the successful ones of the first n resolutions hold.
RECURSIVE SuccessfulRunnables(_, _)
SuccessfulRunnables(res, n) ==
  IF n = 0 THEN 0
  ELSE SuccessfulRunnables(res, n - 1) +
       (IF res[n].result = "SUCCESS" THEN Len(res[n].resolutions) ELSE 0)

\* C8: without a tag filter the runnables are exactly those of the
\* successful resolutions, in resolution order and then in the order within
\* the resolution, each with default_config set from its kind and the
\* config; the other resolutions contribute nothing.
C8_ResolutionsToRunnables ==
  (last = "from_config" /\ ~IsNone(runnables) /\ ~TagFilter) =>
    LET res == Val(resolutions)
        out == Val(runnables)
    IN /\ Len(out) = SuccessfulRunnables(res, Len(res))
       /\ \A i \in DOMAIN res :
            IF res[i].result = "SUCCESS"
            THEN \A k \in DOMAIN res[i].resolutions :
                   /\ out[SuccessfulRunnables(res, i - 1) + k] = res[i].resolutions[k]
                   /\ heap[res[i].resolutions[k]].default_config =
                        Some(filter_runnable_config(
                               given[res[i].resolutions[k]].kind, Val(config)))
            ELSE \A k \in DOMAIN res[i].resolutions :
                   /\ res[i].resolutions[k] \notin Range(out)
                   /\ heap[res[i].resolutions[k]].default_config = None

C8_Witness ==
  /\ last = "from_config" /\ ~IsNone(runnables) /\ ~TagFilter
  /\ Len(Val(resolutions)) = 2
  /\ Val(resolutions)[1].result # "SUCCESS"
  /\ Len(Val(resolutions)[1].resolutions) = 1
  /\ Val(resolutions)[2].result = "SUCCESS"
  /\ Len(Val(runnables)) = 2

\* The value the three layers give a key.
Layered(k) ==
  IF ~IsNone(in_config) /\ ~IsNone(Val(in_config)[k]) THEN Val(in_config)[k]
  ELSE IF ~IsNone(in_job_config) /\ ~IsNone(Val(in_job_config)[k])
  THEN Val(in_job_config)[k]
  ELSE settings[k]

\* C9: the suite's config has, for every key, the suite-config value if the
\* suite config has the key, else the job-config value if the job config has
\* it, else the default; the two mappings passed in are as they were.
C9_ConfigPrecedence ==
  (last \in {"construct", "from_config"} /\ ~IsNone(config)) =>
    /\ \A k \in Keys : Val(config)[k] = Layered(k)
    /\ caller_config = in_config
    /\ caller_job_config = in_job_config

C9_Witness ==
  /\ last = "from_config" /\ ~IsNone(config)
  /\ ~IsNone(in_job_config)
  /\ LET k == "run.suite_runner"
     IN /\ ~IsNone(settings[k])
        /\ ~IsNone(Val(in_job_config)[k])
        /\ ~IsNone(Val(in_config)[k])
        /\ Val(in_job_config)[k] # Val(in_config)[k]
        /\ Val(in_job_config)[k] # settings["run.execution_order"]
  /\ IsNone(Val(in_config)["run.ignore_missing_references"])
  /\ ~IsNone(Val(in_job_config)["run.ignore_missing_references"])

\* C10: from_config replaces tests by the expansion exactly when there are
\* test parameters or the engine has a variant; otherwise tests is the list
\* resolution and filtering produced, and no runnable is bound to a variant.
C10_ExpansionTrigger ==
  FactoryPastConstructor =>
    IF HasParameters \/ Len(varianter) >= 1
    THEN /\ Range(Val(tests)) \cap Range(Val(runnables)) = {}
         /\ \A id \in Range(Val(tests)) : heap[id].variant # None
    ELSE /\ tests = runnables
         /\ \A id \in DOMAIN heap : heap[id].variant = None
         /\ \A id \in Range(Val(tests)) :
              /\ heap[id].kind \in {given[id].kind, "dry-run"}
              /\ heap[id].tags = given[id].tags

C10_Witness ==
  /\ FactoryPastConstructor /\ pc = "built"
  /\ ~HasParameters /\ Len(varianter) = 0
  /\ Len(Val(runnables)) >= 2
  /\ tests = runnables

====
